---- MODULE Spec2Model ----
(***************************************************************************)
(* A model of the moderation bot of src/bot.py: the sliding-window spam    *)
(* detector (check_for_spam, check_recent_spam, cleanup_spam_records) and  *)
(* the classification pipeline (check_message); the platform calls that    *)
(* may fail; the scheduled jobs post_security_message and                  *)
(* post_brand_assets; and the sweeper running beside the dispatcher.       *)
(*                                                                         *)
(* Texts are strings; the regular expressions of the source are modelled   *)
(* character by character.  Time is in whole seconds.                      *)
(***************************************************************************)
EXTENDS Integers, Sequences, FiniteSets, TLC

VARIABLES
    now,            \* the wall clock, datetime.now(timezone.utc), in seconds
    SPAM_TRACKER,   \* text -> deque of <<user_id, timestamp>>     (bot.py:41)
    SPAM_RECORDS,   \* text -> timestamp of the last flagging      (bot.py:42)
    obsLog,         \* history: every check_for_spam call, in order
    last,           \* history: the last operation and what it did
    steps,          \* number of updates handled and clock advances so far
    message_index,  \* index of the next security message           (bot.py:46)
    chat,           \* the messages the jobs have posted in the chat, oldest
                    \* first, each with whether it got pinned
    sweeper         \* the run of cleanup_spam_records that is under way

vars == <<now, SPAM_TRACKER, SPAM_RECORDS, obsLog, last, steps,
          message_index, chat, sweeper>>

(***************************************************************************)
(* Bounds of the model.                                                    *)
(***************************************************************************)
\* the updates handled and the clock advances of one run, together
MaxSteps == 5
\* the same, in the runs where one sender posts and the sweeper runs stepwise
MaxSweepSteps == 8
\* the same, in the runs checked for the expiry of flag records
MaxLiveSteps == 4
\* the firings of the scheduled jobs in one run
MaxRuns == 4
\* the updates handled in one run on a platform whose calls may fail
MaxPlatformSteps == 4

(***************************************************************************)
(* Program constants.                                                      *)
(***************************************************************************)
SPAM_THRESHOLD == 3
TIME_WINDOW == 15
SPAM_RECORD_DURATION == 300
CLEANUP_FIRST == 60
MIN_TEXT_LEN == 2

(***************************************************************************)
(* Characters and strings.                                                 *)
(***************************************************************************)
At(s, i) == SubSeq(s, i, i)

UpperLetters == "ABCDEFGHIJKLMNOPQRSTUVWXYZ"
LowerLetters == "abcdefghijklmnopqrstuvwxyz"

IsDigit(c) == c \in {"0", "1", "2", "3", "4", "5", "6", "7", "8", "9"}
IsSpace(c) == c \in {" ", "\t", "\n", "\r"}
IsLetter(c) == \E i \in 1..26 : c = At(UpperLetters, i) \/ c = At(LowerLetters, i)
\* \w of the re module
IsWordCh(c) == IsLetter(c) \/ IsDigit(c) \/ c = "_"

LowerCh(c) ==
    IF \E i \in 1..26 : c = At(UpperLetters, i)
    THEN At(LowerLetters, CHOOSE i \in 1..26 : c = At(UpperLetters, i))
    ELSE c

\* str.lower()
RECURSIVE lower(_)
lower(s) ==
    IF Len(s) = 0 THEN ""
    ELSE LowerCh(At(s, 1)) \o lower(SubSeq(s, 2, Len(s)))

\* str.strip()
RECURSIVE lstrip(_)
lstrip(s) ==
    IF Len(s) > 0 /\ IsSpace(At(s, 1)) THEN lstrip(SubSeq(s, 2, Len(s))) ELSE s

RECURSIVE rstrip(_)
rstrip(s) ==
    IF Len(s) > 0 /\ IsSpace(At(s, Len(s))) THEN rstrip(SubSeq(s, 1, Len(s) - 1)) ELSE s

strip(s) == rstrip(lstrip(s))

\* sub in s
Contains(s, sub) ==
    \E p \in 1..(Len(s) - Len(sub) + 1) : SubSeq(s, p, p + Len(sub) - 1) = sub

\* \b between s[i] and s[i+1], i in 0..Len(s)
WordBoundary(s, i) ==
    (i >= 1 /\ IsWordCh(At(s, i))) # (i < Len(s) /\ IsWordCh(At(s, i + 1)))

\* re.search(r'\b' + re.escape(phrase) + r'\b', text)
PhraseSearch(phrase, text) ==
    \E p \in 1..(Len(text) - Len(phrase) + 1) :
        /\ SubSeq(text, p, p + Len(phrase) - 1) = phrase
        /\ WordBoundary(text, p - 1)
        /\ WordBoundary(text, p + Len(phrase) - 1)

\* re.search(rf'(?<!\w)/?{re.escape(normalized_trigger)}(_\w+)?(?!\w)', text)
\* with normalized_trigger = trigger.strip().lower()
FilterSearch(trigger, text) ==
    LET nt == lower(strip(trigger))
        n == Len(text)
    IN \E p \in 0..n : \E sl \in {0, 1} :
        LET q == p + sl
            e == q + Len(nt)
        IN /\ ~(p >= 1 /\ IsWordCh(At(text, p)))
           /\ sl = 1 => (p + 1 <= n /\ At(text, p + 1) = "/")
           /\ e <= n
           /\ SubSeq(text, q + 1, e) = nt
           /\ \E k \in {0} \cup (2..(n - e)) :
                /\ k > 0 => /\ At(text, e + 1) = "_"
                            /\ \A j \in (e + 2)..(e + k) : IsWordCh(At(text, j))
                /\ ~(e + k < n /\ IsWordCh(At(text, e + k + 1)))

\* re.search(r"(?:\d\s*)+x|x\s*(?:\d\s*)+", text.lower())
contains_multiplication_phrase(text0) ==
    LET text == lower(text0)
        n == Len(text)
    IN \/ \E i \in 1..n : \E j \in (i + 1)..n :
            /\ IsDigit(At(text, i))
            /\ At(text, j) = "x"
            /\ \A k \in (i + 1)..(j - 1) : IsDigit(At(text, k)) \/ IsSpace(At(text, k))
       \/ \E j \in 1..n : \E i \in (j + 1)..n :
            /\ At(text, j) = "x"
            /\ IsDigit(At(text, i))
            /\ \A k \in (j + 1)..(i - 1) : IsSpace(At(text, k))

(***************************************************************************)
(* Loaded tables (bot.py:85-95) and the chat's population.  The tables are *)
(* read from files at start-up; a small table of each kind is fixed here.  *)
(* load_phrases lower-cases and strips every line.                         *)
(***************************************************************************)
FILTERS == <<
    [trigger |-> "Hi ", response_text |-> "hello", media |-> "hi.gif", type |-> "gif"],
    [trigger |-> "yo", response_text |-> "", media |-> "yo.png", type |-> "Image"] >>

\* the files of MEDIA_FOLDER: os.path.exists(media_path)
MEDIA_FILES == {"yo.png"}

load_phrases(lines) == [i \in 1..Len(lines) |-> lower(strip(lines[i]))]

BAN_PHRASES == load_phrases(<<"Bad">>)
MUTE_PHRASES == load_phrases(<<"mu ">>)
DELETE_PHRASES == load_phrases(<<"de">>)
WHITELIST_PHRASES == load_phrases(<<"OK">>)

\* "arc agent" "arch_agent" is one string in the source: a comma is missing
SUSPICIOUS_USERNAMES == <<
    "dev", "developer", "admin", "mod", "owner", "arc", "arc_agent",
    "arc agentarch_agent", "arch agent", "support", "helpdesk",
    "administrator", "arc admin", "arc_admin" >>

\* update.effective_user of the updates the model sends
Users == {
    [id |-> 1, full_name |-> "Bob Lee", username |-> "bob"],
    [id |-> 2, full_name |-> "Amy", username |-> ""],
    [id |-> 3, full_name |-> "Cy", username |-> "cy3"],
    [id |-> 4, full_name |-> "Di", username |-> ""],
    [id |-> 7, full_name |-> "Marc", username |-> ""],
    [id |-> 9, full_name |-> "Admin Al", username |-> "al"] }

\* context.bot.get_chat_administrators(chat_id), as ids
admin_ids == {9}

\* message.text of the updates the model sends
Texts == {
    "Aa", "bad mu", "/hi_all yo", "hi bad mu de", "hi mu de", "yo de", "OK",
    "a ", "", "2 X" }

(***************************************************************************)
(* Small helpers on maps, sets and deques.                                 *)
(***************************************************************************)
EmptyMap == [x \in {} |-> 0]
MapPut(f, k, v) == [x \in DOMAIN f \cup {k} |-> IF x = k THEN v ELSE f[x]]
MapDel(f, k) == [x \in DOMAIN f \ {k} |-> f[x]]

RECURSIVE SetToSeq(_)
SetToSeq(S) ==
    IF S = {} THEN <<>>
    ELSE LET m == CHOOSE x \in S : \A y \in S : x <= y
         IN <<m>> \o SetToSeq(S \ {m})

\* defaultdict(lambda: deque(maxlen=SPAM_THRESHOLD)): the deque of a new key
DefaultDeque == [items |-> <<>>, bounded |-> TRUE]

\* deque.append: a deque built with maxlen drops its oldest item when full
DequeAppend(d, x) ==
    LET s == Append(d.items, x)
    IN IF d.bounded /\ Len(s) > SPAM_THRESHOLD
       THEN [d EXCEPT !.items = Tail(s)]
       ELSE [d EXCEPT !.items = s]

\* variant of InWindow: the retention period in place of the time window
InWindow_WrongPeriod(t, ts) == t - ts <= SPAM_RECORD_DURATION

\* now - entry[1] <= TIME_WINDOW
InWindow(t, ts) == t - ts <= TIME_WINDOW

\* now - timestamp <= SPAM_RECORD_DURATION
RecordFresh(t, ts) == t - ts <= SPAM_RECORD_DURATION

(***************************************************************************)
(* The spam detector.                                                      *)
(***************************************************************************)
\* variant of ReachesThreshold: > in place of >=
ReachesThreshold_Strict(recent) == Len(recent) > SPAM_THRESHOLD

\* len(recent) >= SPAM_THRESHOLD
ReachesThreshold(recent) == Len(recent) >= SPAM_THRESHOLD

\* variant of check_for_spam: the threshold counts distinct senders
check_for_spam_DistinctSenders(tr, rec, message_text, user_id, t) ==
    LET d0 == IF message_text \in DOMAIN tr THEN tr[message_text] ELSE DefaultDeque
        d1 == DequeAppend(d0, <<user_id, t>>)
        recent == SelectSeq(d1.items, LAMBDA entry : InWindow(t, entry[2]))
        tr1 == MapPut(tr, message_text, [items |-> recent, bounded |-> FALSE])
        senders == {recent[i][1] : i \in 1..Len(recent)}
    IN IF Cardinality(senders) >= SPAM_THRESHOLD
       THEN [tracker |-> tr1,
             records |-> MapPut(rec, message_text, t),
             ret |-> senders]
       ELSE [tracker |-> tr1, records |-> rec, ret |-> {}]

\* check_for_spam(message_text, user_id) at time t, on tracker tr and records
\* rec: the new tracker, the new records and the returned user ids
check_for_spam(tr, rec, message_text, user_id, t) ==
    LET d0 == IF message_text \in DOMAIN tr THEN tr[message_text] ELSE DefaultDeque
        d1 == DequeAppend(d0, <<user_id, t>>)
        recent == SelectSeq(d1.items, LAMBDA entry : InWindow(t, entry[2]))
        \* deque(recent) has no maxlen
        tr1 == MapPut(tr, message_text, [items |-> recent, bounded |-> FALSE])
    IN IF ReachesThreshold(recent)
       THEN [tracker |-> tr1,
             records |-> MapPut(rec, message_text, t),
             ret |-> {recent[i][1] : i \in 1..Len(recent)}]
       ELSE IF /\ recent # <<>>
               /\ Len(recent) < SPAM_THRESHOLD
               /\ t - recent[1][2] > TIME_WINDOW
       THEN [tracker |-> MapDel(tr1, message_text), records |-> rec, ret |-> {}]
       ELSE [tracker |-> tr1, records |-> rec, ret |-> {}]

\* check_recent_spam(message_text) at time t (a datetime is always truthy)
check_recent_spam(rec, message_text, t) ==
    message_text \in DOMAIN rec /\ RecordFresh(t, rec[message_text])

\* variant of cleanup_spam_records: < in place of >
cleanup_spam_records_Reversed(rec, t) ==
    [m \in {x \in DOMAIN rec : ~(t - rec[x] < SPAM_RECORD_DURATION)} |-> rec[m]]

\* variant of cleanup_spam_records: >= in place of >
cleanup_spam_records_Eager(rec, t) ==
    [m \in {x \in DOMAIN rec : ~(t - rec[x] >= SPAM_RECORD_DURATION)} |-> rec[m]]

\* cleanup_spam_records at time t: the records that remain
cleanup_spam_records(rec, t) ==
    [m \in {x \in DOMAIN rec : ~(t - rec[x] > SPAM_RECORD_DURATION)} |-> rec[m]]

(***************************************************************************)
(* The classification pipeline, check_message.                             *)
(***************************************************************************)
\* one call of the platform client
Call(c, u, w) == [call |-> c, uid |-> u, what |-> w]

\* any(keyword in name_username for keyword in SUSPICIOUS_USERNAMES)
SuspiciousName(user) ==
    LET name_username == lower(user.full_name \o " " \o user.username)
    IN \E i \in 1..Len(SUSPICIOUS_USERNAMES) :
          Contains(name_username, SUSPICIOUS_USERNAMES[i])

\* len(message_text.strip()) < 2
TooShort(message_text) == Len(strip(message_text)) < MIN_TEXT_LEN

\* the loop over FILTERS.keys() that sets should_skip_spam_check
MatchesFilter(message_text) ==
    \E i \in 1..Len(FILTERS) : FilterSearch(FILTERS[i].trigger, message_text)

\* message_text.strip() in WHITELIST_PHRASES
Whitelisted(message_text) ==
    \E i \in 1..Len(WHITELIST_PHRASES) : WHITELIST_PHRASES[i] = strip(message_text)

\* should_skip_spam_check after steps 1 and 2 of the autospam block
ShouldSkipSpamCheck(message_text) ==
    MatchesFilter(message_text) \/ Whitelisted(message_text)

\* a for loop over a phrase list finds a phrase matching the text
MatchesPhrase(phrases, message_text) ==
    \E i \in 1..Len(phrases) : PhraseSearch(phrases[i], message_text)

\* variant of FirstFilter: the last matching trigger in place of the first
FirstFilter_LastMatch(message_text) ==
    IF MatchesFilter(message_text)
    THEN CHOOSE i \in 1..Len(FILTERS) :
            /\ FilterSearch(FILTERS[i].trigger, message_text)
            /\ \A j \in (i + 1)..Len(FILTERS) :
                  ~FilterSearch(FILTERS[j].trigger, message_text)
    ELSE 0

\* the first trigger, in the order of FILTERS.items(), that matches; 0 if none
FirstFilter(message_text) ==
    IF MatchesFilter(message_text)
    THEN CHOOSE i \in 1..Len(FILTERS) :
            /\ FilterSearch(FILTERS[i].trigger, message_text)
            /\ \A j \in 1..(i - 1) : ~FilterSearch(FILTERS[j].trigger, message_text)
    ELSE 0

\* the body of the filter loop for the matching entry f
FilterCalls(f) ==
    LET media_type == lower(f.type)
    IN IF f.media # ""
       THEN IF f.media \in MEDIA_FILES
            THEN IF media_type \in {"gif", "animation"}
                 THEN <<Call("send_animation", 0, f.media)>>
                 ELSE IF media_type = "image"
                 THEN <<Call("send_photo", 0, f.media)>>
                 ELSE IF media_type = "video"
                 THEN <<Call("send_video", 0, f.media)>>
                 ELSE <<>>
            ELSE IF f.response_text # ""
                 THEN <<Call("reply_text", 0, f.response_text)>>
                 ELSE <<>>
       ELSE IF f.response_text # ""
            THEN <<Call("reply_text", 0, f.response_text)>>
            ELSE <<>>

\* message.text.lower() and the tests of the pipeline, tabulated once for the
\* texts and the users of the model
MessageTexts == {lower(t) : t \in Texts}
LowerOf == [t \in Texts |-> lower(t)]
TextFacts ==
    [m \in MessageTexts |->
        [too_short |-> TooShort(m),
         multiplication |-> contains_multiplication_phrase(m),
         skip |-> ShouldSkipSpamCheck(m),
         ban |-> MatchesPhrase(BAN_PHRASES, m),
         mute |-> MatchesPhrase(MUTE_PHRASES, m),
         delete |-> MatchesPhrase(DELETE_PHRASES, m),
         filter |-> FirstFilter(m)]]
SuspiciousUsers == {u \in Users : SuspiciousName(u)}

\* what one run of check_message did: the rule it returned from, the platform
\* calls it made, the spam state it left, and the values of the spam check
Outcome(rule, calls, sp) ==
    [rule |-> rule, calls |-> calls, tracker |-> sp.tracker, records |-> sp.records,
     checked |-> sp.checked, spam_ret |-> sp.ret, recent |-> sp.recent,
     spammer_ids |-> sp.spammer_ids]

\* the spam state and the values of a spam check that did not run
Unchecked(tr, rec) ==
    [tracker |-> tr, records |-> rec, checked |-> FALSE, ret |-> {},
     recent |-> FALSE, spammer_ids |-> {}]

\* "Filter Responses (apply to all)"
FilterStage(sp, message_text) ==
    LET i == TextFacts[message_text].filter
    IN IF i = 0
       THEN Outcome("none", <<>>, sp)
       ELSE Outcome("filter", FilterCalls(FILTERS[i]), sp)

\* variant of PhraseStage: the mute loop placed before the ban loop
PhraseStage_MuteFirst(sp, message_text, user) ==
    IF TextFacts[message_text].mute
    THEN Outcome("mute_phrase",
                 <<Call("restrict_chat_member", user.id, ""),
                   Call("reply_text", user.id, "muted")>>, sp)
    ELSE IF TextFacts[message_text].ban
    THEN Outcome("ban_phrase",
                 <<Call("ban_chat_member", user.id, ""),
                   Call("reply_text", user.id, "banned")>>, sp)
    ELSE IF TextFacts[message_text].delete
    THEN Outcome("delete_phrase", <<Call("delete_message", 0, "")>>, sp)
    ELSE FilterStage(sp, message_text)

\* variant of PhraseStage: no return after a ban, a mute or a delete, so the
\* later loops and the filter responses still run
PhraseStage_FallsThrough(sp, message_text, user) ==
    LET ban == IF TextFacts[message_text].ban
               THEN <<Call("ban_chat_member", user.id, ""),
                      Call("reply_text", user.id, "banned")>>
               ELSE <<>>
        mute == IF TextFacts[message_text].mute
                THEN <<Call("restrict_chat_member", user.id, ""),
                       Call("reply_text", user.id, "muted")>>
                ELSE <<>>
        del == IF TextFacts[message_text].delete
               THEN <<Call("delete_message", 0, "")>>
               ELSE <<>>
        f == FilterStage(sp, message_text)
    IN Outcome(IF ban # <<>> THEN "ban_phrase"
               ELSE IF mute # <<>> THEN "mute_phrase"
               ELSE IF del # <<>> THEN "delete_phrase"
               ELSE f.rule,
               ban \o mute \o del \o f.calls, sp)

\* the three phrase loops, then the filter responses
PhraseStage(sp, message_text, user) ==
    IF TextFacts[message_text].ban
    THEN Outcome("ban_phrase",
                 <<Call("ban_chat_member", user.id, ""),
                   Call("reply_text", user.id, "banned")>>, sp)
    ELSE IF TextFacts[message_text].mute
    THEN Outcome("mute_phrase",
                 <<Call("restrict_chat_member", user.id, ""),
                   Call("reply_text", user.id, "muted")>>, sp)
    ELSE IF TextFacts[message_text].delete
    THEN Outcome("delete_phrase", <<Call("delete_message", 0, "")>>, sp)
    ELSE FilterStage(sp, message_text)

\* "for spammer_id in set(spammer_ids)": a restriction and a notice per sender
\* (a set of small ints is iterated in ascending order)
RECURSIVE MuteCalls(_)
MuteCalls(ids) ==
    IF ids = <<>> THEN <<>>
    ELSE <<Call("restrict_chat_member", Head(ids), ""),
           Call("send_message", Head(ids), "muted")>> \o MuteCalls(Tail(ids))

\* variant of SpamCheck: check_recent_spam is not consulted
SpamCheck_IgnoresRecent(tr, rec, message_text, user_id, t) ==
    LET sp == check_for_spam(tr, rec, message_text, user_id, t)
    IN [tracker |-> sp.tracker, records |-> sp.records, checked |-> TRUE,
        ret |-> sp.ret, recent |-> check_recent_spam(sp.records, message_text, t),
        spammer_ids |-> sp.ret]

\* "3. autospam - check for spam": check_for_spam, then check_recent_spam
SpamCheck(tr, rec, message_text, user_id, t) ==
    LET sp == check_for_spam(tr, rec, message_text, user_id, t)
        recent == check_recent_spam(sp.records, message_text, t)
    IN [tracker |-> sp.tracker, records |-> sp.records, checked |-> TRUE,
        ret |-> sp.ret, recent |-> recent,
        spammer_ids |-> IF recent /\ user_id \notin sp.ret
                        THEN sp.ret \cup {user_id}
                        ELSE sp.ret]

\* variant of SpamStage: should_skip_spam_check is not consulted
SpamStage_AlwaysChecks(tr, rec, message_text, user, t) ==
    LET sp == SpamCheck(tr, rec, message_text, user.id, t)
    IN IF sp.spammer_ids # {}
       THEN Outcome("spam", MuteCalls(SetToSeq(sp.spammer_ids)), sp)
       ELSE PhraseStage([sp EXCEPT !.spammer_ids = {}], message_text, user)

\* variant of SpamStage: a text that is exempt from the spam check also
\* skips the ban loop and the mute loop
SpamStage_SkipsToDelete(tr, rec, message_text, user, t) ==
    IF TextFacts[message_text].skip
    THEN IF TextFacts[message_text].delete
         THEN Outcome("delete_phrase", <<Call("delete_message", 0, "")>>,
                      Unchecked(tr, rec))
         ELSE FilterStage(Unchecked(tr, rec), message_text)
    ELSE LET sp == SpamCheck(tr, rec, message_text, user.id, t)
         IN IF sp.spammer_ids # {}
            THEN Outcome("spam", MuteCalls(SetToSeq(sp.spammer_ids)), sp)
            ELSE PhraseStage([sp EXCEPT !.spammer_ids = {}], message_text, user)

\* the autospam block, then the phrase checks
SpamStage(tr, rec, message_text, user, t) ==
    IF TextFacts[message_text].skip
    THEN PhraseStage(Unchecked(tr, rec), message_text, user)
    ELSE LET sp == SpamCheck(tr, rec, message_text, user.id, t)
         IN IF sp.spammer_ids # {}
            THEN Outcome("spam", MuteCalls(SetToSeq(sp.spammer_ids)), sp)
            ELSE PhraseStage([sp EXCEPT !.spammer_ids = {}], message_text, user)

\* the block under "if user_id not in admin_ids"
NonAdminStage(tr, rec, message_text, user, t) ==
    IF TextFacts[message_text].too_short
    THEN Outcome("too_short", <<Call("delete_message", 0, "")>>, Unchecked(tr, rec))
    ELSE IF user \in SuspiciousUsers
    THEN Outcome("suspicious_name", <<Call("ban_chat_member", user.id, "")>>,
                 Unchecked(tr, rec))
    ELSE IF TextFacts[message_text].multiplication
    THEN Outcome("multiplication", <<Call("delete_message", 0, "")>>,
                 Unchecked(tr, rec))
    ELSE SpamStage(tr, rec, message_text, user, t)

\* user_id in admin_ids
IsAdmin(user) == user.id \in admin_ids

\* variant of check_message: no exemption of administrators
check_message_NoExemption(tr, rec, upd, t) ==
    IF ~upd.has_text
    THEN Outcome("raised", <<>>, Unchecked(tr, rec))
    ELSE IF upd.text = ""
    THEN Outcome("no_text", <<>>, Unchecked(tr, rec))
    ELSE NonAdminStage(tr, rec, LowerOf[upd.text], upd.user, t)

\* variant of check_message: the length test placed before the test for an
\* administrator
check_message_LengthFirst(tr, rec, upd, t) ==
    IF ~upd.has_text
    THEN Outcome("raised", <<>>, Unchecked(tr, rec))
    ELSE IF upd.text = ""
    THEN Outcome("no_text", <<>>, Unchecked(tr, rec))
    ELSE IF TextFacts[LowerOf[upd.text]].too_short
    THEN Outcome("too_short", <<Call("delete_message", 0, "")>>, Unchecked(tr, rec))
    ELSE IF ~IsAdmin(upd.user)
    THEN NonAdminStage(tr, rec, LowerOf[upd.text], upd.user, t)
    ELSE FilterStage(Unchecked(tr, rec), LowerOf[upd.text])

\* check_message(update, context) at time t
check_message(tr, rec, upd, t) ==
    IF ~upd.has_text
    THEN \* message.text.lower() on None raises AttributeError
         Outcome("raised", <<>>, Unchecked(tr, rec))
    ELSE IF upd.text = ""
    THEN \* "if not message or not message.text: return"
         Outcome("no_text", <<>>, Unchecked(tr, rec))
    ELSE IF ~IsAdmin(upd.user)
    THEN NonAdminStage(tr, rec, LowerOf[upd.text], upd.user, t)
    ELSE FilterStage(Unchecked(tr, rec), LowerOf[upd.text])

(***************************************************************************)
(* check_message on a platform whose calls may fail.  The calls of a run   *)
(* are numbered as in the run where none fails (0 is                       *)
(* get_chat_administrators); the platform fails those in the set failing.  *)
(***************************************************************************)
\* a call that was made, and whether the platform carried it out
Attempt(c, ok) == [call |-> c.call, uid |-> c.uid, what |-> c.what, ok |-> ok]

\* the attempts of a run that failed
Failed(attempts) == {i \in 1..Len(attempts) : ~attempts[i].ok}

\* variant of MuteAttempts: no try/except around the two calls
RECURSIVE MuteAttempts_Aborts(_, _, _)
MuteAttempts_Aborts(ids, k, failing) ==
    IF ids = <<>> THEN <<>>
    ELSE LET r == Attempt(Call("restrict_chat_member", Head(ids), ""), k \notin failing)
             n == Attempt(Call("send_message", Head(ids), "muted"), (k + 1) \notin failing)
         IN IF ~r.ok THEN <<r>>
            ELSE IF ~n.ok THEN <<r, n>>
            ELSE <<r, n>> \o MuteAttempts_Aborts(Tail(ids), k + 2, failing)

\* "for spammer_id in set(spammer_ids): try: restrict_chat_member;
\* send_message; except Exception": a failed call ends the turn of its sender
RECURSIVE MuteAttempts(_, _, _)
MuteAttempts(ids, k, failing) ==
    IF ids = <<>> THEN <<>>
    ELSE LET r == Attempt(Call("restrict_chat_member", Head(ids), ""), k \notin failing)
             n == Attempt(Call("send_message", Head(ids), "muted"), (k + 1) \notin failing)
         IN (IF r.ok THEN <<r, n>> ELSE <<r>>)
               \o MuteAttempts(Tail(ids), k + 2, failing)

\* calls outside any try: the first that fails raises and ends the run
RECURSIVE UntilFailure(_, _, _)
UntilFailure(calls, k, failing) ==
    IF calls = <<>> THEN <<>>
    ELSE IF k \in failing THEN <<Attempt(Head(calls), FALSE)>>
    ELSE <<Attempt(Head(calls), TRUE)>> \o UntilFailure(Tail(calls), k + 1, failing)

\* the spam state and the values of the spam check of an outcome
SpamPart(o) ==
    [tracker |-> o.tracker, records |-> o.records, checked |-> o.checked,
     ret |-> o.spam_ret, recent |-> o.recent, spammer_ids |-> o.spammer_ids]

\* check_message(update, context) at time t when the calls in failing fail
check_message_on_platform(tr, rec, upd, t, failing) ==
    LET o == check_message(tr, rec, upd, t)
    IN IF o.rule = "raised"
       THEN o
       ELSE IF 0 \in failing
       THEN Outcome("raised",
                    <<Attempt(Call("get_chat_administrators", 0, ""), FALSE)>>,
                    Unchecked(tr, rec))
       ELSE IF o.rule = "spam"
       THEN Outcome("spam", MuteAttempts(SetToSeq(o.spammer_ids), 1, failing),
                    SpamPart(o))
       ELSE LET attempts == UntilFailure(o.calls, 1, failing)
            IN Outcome(IF Failed(attempts) # {} THEN "raised" ELSE o.rule,
                       attempts, SpamPart(o))

(***************************************************************************)
(* The scheduled jobs that post in the chat.                               *)
(***************************************************************************)
\* combot.scheduled_warnings.messages and combot.brand_assets.messages
messages == <<"warning 1", "warning 2", "warning 3">>
brand_assets_messages == <<"brand 1", "brand 2">>

\* what the platform does with the two calls for one text
SendOutcomes == {"ok", "send_failed", "pin_failed"}

\* context.bot.send_message, then context.bot.pin_chat_message of what was
\* sent: a send that fails raises before the pin
SendAndPin(message, outcome) ==
    IF outcome = "send_failed"
    THEN <<Attempt(Call("send_message", 0, message), FALSE)>>
    ELSE <<Attempt(Call("send_message", 0, message), TRUE),
           Attempt(Call("pin_chat_message", 0, message), outcome = "ok")>>

\* variant of post_security_message: the index advances without wrapping
post_security_message_NoWrap(index, outcome) ==
    [calls |-> SendAndPin(messages[index + 1], outcome),
     message_index |-> IF outcome = "ok" THEN index + 1 ELSE index,
     raised |-> outcome # "ok"]

\* post_security_message(context) with message_index = index: the calls, the
\* new message_index, and whether the job raised
post_security_message(index, outcome) ==
    [calls |-> SendAndPin(messages[index + 1], outcome),
     message_index |-> IF outcome = "ok"
                       THEN (index + 1) % Len(messages)
                       ELSE index,
     raised |-> outcome # "ok"]

\* the loop of post_brand_assets from message i on: no try, so the first
\* call that fails raises and ends the loop
RECURSIVE BrandLoop(_, _)
BrandLoop(i, outcomes) ==
    IF i > Len(brand_assets_messages) THEN <<>>
    ELSE SendAndPin(brand_assets_messages[i], outcomes[i])
            \o (IF outcomes[i] = "ok" THEN BrandLoop(i + 1, outcomes) ELSE <<>>)

\* post_brand_assets(context): the calls and whether the job raised
post_brand_assets(outcomes) ==
    LET calls == BrandLoop(1, outcomes)
    IN [calls |-> calls, raised |-> Failed(calls) # {}]

\* the chat after the calls of a job: a message that was sent is there, and
\* is pinned when its pin succeeded
RECURSIVE Posted(_, _)
Posted(c, calls) ==
    IF calls = <<>> THEN c
    ELSE LET a == Head(calls)
         IN IF ~a.ok THEN Posted(c, Tail(calls))
            ELSE IF a.call = "send_message"
            THEN Posted(Append(c, [text |-> a.what, pinned |-> FALSE]), Tail(calls))
            ELSE Posted([c EXCEPT ![Len(c)].pinned = TRUE], Tail(calls))

(***************************************************************************)
(* The state machine.                                                      *)
(***************************************************************************)
\* the clock advances the model takes: to the edge of the time window, to the
\* edge of the retention period, and past it
TickSteps == {TIME_WINDOW, SPAM_RECORD_DURATION, SPAM_RECORD_DURATION + TIME_WINDOW}

\* The senders without a suspicious name who are no administrators are
\* interchangeable: the model numbers them in order of first appearance in
\* the spam check.  All of them post the texts that reach the spam check;
\* the first of them also posts every other text.
NormalUsers == {u \in Users : ~IsAdmin(u) /\ u \notin SuspiciousUsers}
FirstNormal == CHOOSE u \in NormalUsers : \A v \in NormalUsers : u.id <= v.id
ObservedTexts ==
    {t \in Texts : /\ t # ""
                   /\ ~TextFacts[lower(t)].too_short
                   /\ ~TextFacts[lower(t)].multiplication
                   /\ ~TextFacts[lower(t)].skip}

Updates ==
    {upd \in [has_text : {TRUE}, text : Texts, user : Users] :
        upd.user \in NormalUsers \ {FirstNormal} => upd.text \in ObservedTexts}
    \cup {[has_text |-> FALSE, text |-> "", user |-> FirstNormal]}

SendersSeen == {obsLog[i].uid : i \in 1..Len(obsLog)}

InOrderOfAppearance(upd) ==
    upd.user \in NormalUsers =>
        Cardinality({u \in NormalUsers : u.id < upd.user.id}) <= Cardinality(SendersSeen)

NoUpdate ==
    [has_text |-> FALSE, text |-> "", user |-> [id |-> 0, full_name |-> "", username |-> ""]]

NoOutcome == Outcome("", <<>>, Unchecked(EmptyMap, EmptyMap))

Last(op, upd, o, tr, rec) ==
    [op |-> op, update |-> upd, text |-> LowerOf[upd.text], rule |-> o.rule,
     calls |-> o.calls, checked |-> o.checked, spam_ret |-> o.spam_ret,
     recent |-> o.recent, spammer_ids |-> o.spammer_ids,
     preTracker |-> tr, preRecords |-> rec]

\* no run of cleanup_spam_records is under way
Idle == [pc |-> "idle", now |-> 0, items |-> <<>>]

Init ==
    /\ now = 0
    /\ SPAM_TRACKER = EmptyMap
    /\ SPAM_RECORDS = EmptyMap
    /\ obsLog = <<>>
    /\ last = Last("init", NoUpdate, NoOutcome, EmptyMap, EmptyMap)
    /\ steps = 0
    /\ message_index = 0
    /\ chat = <<>>
    /\ sweeper = Idle

\* the jobs' part of the state
jobs == <<message_index, chat, sweeper>>

\* check_message has handled update upd with outcome o
Handle(upd, o) ==
    /\ SPAM_TRACKER' = o.tracker
    /\ SPAM_RECORDS' = o.records
    /\ obsLog' = IF o.checked
                 THEN Append(obsLog, [text |-> LowerOf[upd.text],
                                      uid |-> upd.user.id,
                                      t |-> now, ret |-> o.spam_ret])
                 ELSE obsLog
    /\ last' = Last("msg", upd, o, SPAM_TRACKER, SPAM_RECORDS)

\* the dispatcher hands one update to check_message
HandleUpdate ==
    /\ steps < MaxSteps
    /\ \E upd \in Updates :
        /\ InOrderOfAppearance(upd)
        /\ Handle(upd, check_message(SPAM_TRACKER, SPAM_RECORDS, upd, now))
    /\ steps' = steps + 1
    /\ UNCHANGED <<now, jobs>>

\* the job queue runs cleanup_spam_records (every 60 s, first after 60 s)
Cleanup ==
    /\ now >= CLEANUP_FIRST
    /\ SPAM_RECORDS' = cleanup_spam_records(SPAM_RECORDS, now)
    /\ last' = Last("cleanup", NoUpdate, NoOutcome, SPAM_TRACKER, SPAM_RECORDS)
    /\ UNCHANGED <<now, SPAM_TRACKER, obsLog, steps, jobs>>

\* time passes
Tick ==
    /\ steps < MaxSteps
    /\ \E d \in TickSteps : now' = now + d
    /\ steps' = steps + 1
    /\ last' = Last("tick", NoUpdate, NoOutcome, SPAM_TRACKER, SPAM_RECORDS)
    /\ UNCHANGED <<SPAM_TRACKER, SPAM_RECORDS, obsLog, jobs>>

Next == HandleUpdate \/ Cleanup \/ Tick

Spec == Init /\ [][Next]_vars

(***************************************************************************)
(* The dispatcher on a platform whose calls may fail.                      *)
(***************************************************************************)
\* the dispatcher hands one update to check_message; the platform fails any
\* of the calls
HandleUpdateOnPlatform ==
    /\ steps < MaxPlatformSteps
    /\ \E upd \in Updates :
        /\ InOrderOfAppearance(upd)
        /\ LET o == check_message(SPAM_TRACKER, SPAM_RECORDS, upd, now)
           IN \E failing \in SUBSET (0..Len(o.calls)) :
                 Handle(upd, check_message_on_platform(SPAM_TRACKER, SPAM_RECORDS,
                                                       upd, now, failing))
    /\ steps' = steps + 1
    /\ UNCHANGED <<now, jobs>>

NextOnPlatform == HandleUpdateOnPlatform \/ Cleanup \/ Tick

SpecOnPlatform == Init /\ [][NextOnPlatform]_vars

(***************************************************************************)
(* The job queue firing the two jobs that post.                            *)
(***************************************************************************)
\* history: what a firing of a job did
Fired(job, r, index) ==
    [op |-> job, calls |-> r.calls, raised |-> r.raised, preIndex |-> index,
     preChat |-> chat]

\* run_repeating(post_security_message, interval=4 * 60 * 60, first=0)
PostSecurityMessage ==
    /\ steps < MaxRuns
    /\ \E outcome \in SendOutcomes :
          LET r == post_security_message(message_index, outcome)
          IN /\ message_index' = r.message_index
             /\ chat' = Posted(chat, r.calls)
             /\ last' = Fired("post_security_message", r, message_index)
    /\ steps' = steps + 1
    /\ UNCHANGED <<now, SPAM_TRACKER, SPAM_RECORDS, obsLog, sweeper>>

\* run_daily(post_brand_assets, ...), twice a day
PostBrandAssets ==
    /\ steps < MaxRuns
    /\ \E outcomes \in [1..Len(brand_assets_messages) -> SendOutcomes] :
          LET r == post_brand_assets(outcomes)
          IN /\ chat' = Posted(chat, r.calls)
             /\ last' = Fired("post_brand_assets", r, message_index)
    /\ steps' = steps + 1
    /\ UNCHANGED <<now, SPAM_TRACKER, SPAM_RECORDS, obsLog, message_index, sweeper>>

NextBroadcast == PostSecurityMessage \/ PostBrandAssets

SpecBroadcast == Init /\ [][NextBroadcast]_vars

(***************************************************************************)
(* The sweeper beside the dispatcher.  The job queue runs                  *)
(* cleanup_spam_records in a thread of its own and the code takes no lock: *)
(* the dispatcher may handle updates between the steps of the sweeper.     *)
(***************************************************************************)
\* list(SPAM_RECORDS.items())
RECURSIVE Items(_)
Items(rec) ==
    IF DOMAIN rec = {} THEN <<>>
    ELSE LET m == CHOOSE x \in DOMAIN rec : TRUE
         IN <<<<m, rec[m]>>>> \o Items(MapDel(rec, m))

\* the updates of the runs with a stepwise sweeper: one sender posts the
\* texts that reach the spam check
SpamUpdates ==
    {upd \in Updates : upd.has_text /\ upd.user = FirstNormal /\ upd.text \in ObservedTexts}

\* the dispatcher hands one of these updates to check_message
HandleSpamUpdate(bound) ==
    /\ steps < bound
    /\ \E upd \in SpamUpdates :
          Handle(upd, check_message(SPAM_TRACKER, SPAM_RECORDS, upd, now))
    /\ steps' = steps + 1
    /\ UNCHANGED <<now, jobs>>

\* time passes
Pass(bound) ==
    /\ steps < bound
    /\ \E d \in TickSteps : now' = now + d
    /\ steps' = steps + 1
    /\ last' = Last("tick", NoUpdate, NoOutcome, SPAM_TRACKER, SPAM_RECORDS)
    /\ UNCHANGED <<SPAM_TRACKER, SPAM_RECORDS, obsLog, jobs>>

SweepHandleUpdate == HandleSpamUpdate(MaxSweepSteps)

SweepTick == Pass(MaxSweepSteps)

\* cleanup_spam_records reads the clock and copies the items of SPAM_RECORDS
SweepStart ==
    /\ sweeper.pc = "idle"
    /\ now >= CLEANUP_FIRST
    /\ sweeper' = IF SPAM_RECORDS = EmptyMap
                  THEN Idle
                  ELSE [pc |-> "loop", now |-> now, items |-> Items(SPAM_RECORDS)]
    /\ last' = Last("sweep_start", NoUpdate, NoOutcome, SPAM_TRACKER, SPAM_RECORDS)
    /\ UNCHANGED <<now, SPAM_TRACKER, SPAM_RECORDS, obsLog, steps, message_index, chat>>

\* one turn of its loop: the timestamp of the copy is compared with the
\* clock read at the start, and the key is deleted from SPAM_RECORDS
SweepItem ==
    /\ sweeper.pc = "loop"
    /\ LET message_text == Head(sweeper.items)[1]
           timestamp == Head(sweeper.items)[2]
       IN SPAM_RECORDS' = IF sweeper.now - timestamp > SPAM_RECORD_DURATION
                          THEN MapDel(SPAM_RECORDS, message_text)
                          ELSE SPAM_RECORDS
    /\ sweeper' = IF Tail(sweeper.items) = <<>>
                  THEN Idle
                  ELSE [sweeper EXCEPT !.items = Tail(sweeper.items)]
    /\ last' = Last("sweep", NoUpdate, NoOutcome, SPAM_TRACKER, SPAM_RECORDS)
    /\ UNCHANGED <<now, SPAM_TRACKER, obsLog, steps, message_index, chat>>

NextSweep == SweepHandleUpdate \/ SweepTick \/ SweepStart \/ SweepItem

SpecSweep == Init /\ [][NextSweep]_vars

(***************************************************************************)
(* The sweeper firing on its interval while time advances.                 *)
(***************************************************************************)
LiveHandleUpdate == HandleSpamUpdate(MaxLiveSteps)

LiveTick == Pass(MaxLiveSteps)

\* time goes on while a flag record is within the retention period
Elapse ==
    /\ \E m \in DOMAIN SPAM_RECORDS : RecordFresh(now, SPAM_RECORDS[m])
    /\ \E d \in TickSteps : now' = now + d
    /\ last' = Last("tick", NoUpdate, NoOutcome, SPAM_TRACKER, SPAM_RECORDS)
    /\ UNCHANGED <<SPAM_TRACKER, SPAM_RECORDS, obsLog, steps, jobs>>

NextLive == LiveHandleUpdate \/ LiveTick \/ Elapse \/ Cleanup

\* the job queue fires cleanup_spam_records every 60 s, and time advances
SpecLive ==
    /\ Init
    /\ [][NextLive]_vars
    /\ WF_vars(Cleanup)
    /\ WF_vars(Elapse)

(***************************************************************************)
(* Vocabulary of the properties.                                           *)
(***************************************************************************)
\* the last step handled an update that carries a text
HandledText == last.op = "msg" /\ last.update.has_text

\* the last step ran the spam check (check_for_spam, then check_recent_spam)
Observed == last.op = "msg" /\ last.checked

\* the kinds of platform call the last step made
CallKinds == {last.calls[i].call : i \in 1..Len(last.calls)}

\* the users the last step restricted
Restricted ==
    {last.calls[i].uid : i \in {j \in 1..Len(last.calls) :
                                   last.calls[j].call = "restrict_chat_member"}}

\* the observations of text m so far, oldest first
LogOf(m) == SelectSeq(obsLog, LAMBDA e : e.text = m)

\* the texts that match a filter trigger or are a whitelist phrase, and the
\* texts that match a phrase of each block list
FilterTexts == {m \in MessageTexts : MatchesFilter(m)}
WhitelistTexts == {m \in MessageTexts : \E i \in 1..Len(WHITELIST_PHRASES) : m = WHITELIST_PHRASES[i]}
BanTexts == {m \in MessageTexts : MatchesPhrase(BAN_PHRASES, m)}
MuteTexts == {m \in MessageTexts : MatchesPhrase(MUTE_PHRASES, m)}
DeleteTexts == {m \in MessageTexts : MatchesPhrase(DELETE_PHRASES, m)}
ShortTexts == {m \in MessageTexts : Len(strip(m)) < MIN_TEXT_LEN}

MultiplicationTexts == {m \in MessageTexts : contains_multiplication_phrase(m)}

\* the sender of the last update is an administrator of the chat
FromAdmin == last.update.user.id \in admin_ids

\* the name and handle of the sender of the last update contain no
\* suspicious keyword
NameIsClean ==
    LET n == lower(last.update.user.full_name \o " " \o last.update.user.username)
    IN \A i \in 1..Len(SUSPICIOUS_USERNAMES) : ~Contains(n, SUSPICIOUS_USERNAMES[i])

\* the last step left the windows and the flag records as they were
SpamStateUntouched ==
    /\ SPAM_TRACKER = last.preTracker
    /\ SPAM_RECORDS = last.preRecords
    /\ ~last.checked

(***************************************************************************)
(* C1: from an empty spam state, when the first SPAM_THRESHOLD              *)
(* observations of a text come from distinct senders and all lie inside    *)
(* the time window, the first SPAM_THRESHOLD - 1 of them return the empty  *)
(* set and the last returns exactly the set of those senders.              *)
(***************************************************************************)
C1_Burst(L) ==
    /\ Len(L) >= SPAM_THRESHOLD
    /\ \A i, j \in 1..SPAM_THRESHOLD : i # j => L[i].uid # L[j].uid
    /\ L[SPAM_THRESHOLD].t - L[1].t <= TIME_WINDOW

C1_ThresholdFlagsExactlyTheSenders ==
    \A m \in MessageTexts :
        LET L == LogOf(m)
        IN C1_Burst(L) =>
            /\ \A i \in 1..(SPAM_THRESHOLD - 1) : L[i].ret = {}
            /\ L[SPAM_THRESHOLD].ret = {L[i].uid : i \in 1..SPAM_THRESHOLD}

\* a burst of SPAM_THRESHOLD distinct senders that spans the whole window
C1_Witness ==
    \E m \in MessageTexts :
        LET L == LogOf(m)
        IN /\ C1_Burst(L)
           /\ L[SPAM_THRESHOLD].t - L[1].t = TIME_WINDOW
           /\ Cardinality(L[SPAM_THRESHOLD].ret) = SPAM_THRESHOLD

(***************************************************************************)
(* C2: the window stored for a text never holds more than SPAM_THRESHOLD   *)
(* entries, and one observation never returns more than SPAM_THRESHOLD     *)
(* senders.                                                                *)
(***************************************************************************)
C2_WindowAtMostThreshold ==
    /\ \A m \in DOMAIN SPAM_TRACKER : Len(SPAM_TRACKER[m].items) <= SPAM_THRESHOLD
    /\ Observed => Cardinality(last.spam_ret) <= SPAM_THRESHOLD

(***************************************************************************)
(* C3: an observation that finds the window of its text non-empty with its *)
(* oldest entry older than the time window, and that stays below the       *)
(* threshold, leaves the text without a key in SPAM_TRACKER.               *)
(***************************************************************************)
C3_DeadKeyEvicted ==
    (/\ Observed
     /\ last.spam_ret = {}
     /\ last.text \in DOMAIN last.preTracker
     /\ last.preTracker[last.text].items # <<>>
     /\ now - last.preTracker[last.text].items[1][2] > TIME_WINDOW)
        => last.text \notin DOMAIN SPAM_TRACKER

(***************************************************************************)
(* C4: an observation returns senders, or writes a flag record, only when  *)
(* at least SPAM_THRESHOLD observations of its text, itself included, lie  *)
(* within the time window that ends at it.                                 *)
(***************************************************************************)
C4_InWindowBefore(i) ==
    {j \in 1..i : /\ obsLog[j].text = obsLog[i].text
                  /\ obsLog[i].t - obsLog[j].t <= TIME_WINDOW}

C4_RecordWritten ==
    /\ last.op = "msg"
    /\ last.text \in DOMAIN SPAM_RECORDS
    /\ \/ last.text \notin DOMAIN last.preRecords
       \/ last.preRecords[last.text] # SPAM_RECORDS[last.text]

C4_FlagsOnlyOnBurst ==
    /\ \A i \in 1..Len(obsLog) :
          obsLog[i].ret # {} => Cardinality(C4_InWindowBefore(i)) >= SPAM_THRESHOLD
    /\ C4_RecordWritten =>
          /\ Observed
          /\ Cardinality(C4_InWindowBefore(Len(obsLog))) >= SPAM_THRESHOLD

\* a flagging observation of a text that was also observed before the window
C4_Witness ==
    /\ Observed
    /\ last.spam_ret # {}
    /\ Len(LogOf(last.text)) > Cardinality(C4_InWindowBefore(Len(obsLog)))

(***************************************************************************)
(* C5 as stated: once a flag record exists for a text, a sender who is no  *)
(* administrator and posts that text (matching no filter, not whitelisted) *)
(* while the record is within the retention period is among the muted.     *)
(***************************************************************************)
C5_PostsFlaggedText ==
    /\ HandledText
    /\ ~FromAdmin
    /\ last.text \notin FilterTexts \cup WhitelistTexts
    /\ last.text \in DOMAIN last.preRecords
    /\ now - last.preRecords[last.text] <= SPAM_RECORD_DURATION

C5_Original ==
    C5_PostsFlaggedText => last.update.user.id \in Restricted

(***************************************************************************)
(* C5 as amended: the same, for a sender whose name and handle contain no  *)
(* suspicious keyword (a sender with such a name is banned before the spam *)
(* check and is not muted).                                                *)
(***************************************************************************)
C5_RepeatOfFlaggedTextIsMuted ==
    (C5_PostsFlaggedText /\ NameIsClean) =>
        /\ last.rule = "spam"
        /\ last.update.user.id \in last.spammer_ids
        /\ last.update.user.id \in Restricted

\* a new sender is muted for a flagged text at the very end of the retention
\* period, when the live window holds this one observation only
C5_Witness ==
    /\ C5_PostsFlaggedText
    /\ NameIsClean
    /\ last.spam_ret = {}
    /\ Len(SPAM_TRACKER[last.text].items) < SPAM_THRESHOLD
    /\ now - last.preRecords[last.text] = SPAM_RECORD_DURATION
    /\ last.update.user.id \notin {e[1] : e \in
           {last.preTracker[last.text].items[i] :
               i \in 1..Len(last.preTracker[last.text].items)}}
    /\ last.update.user.id \in Restricted

(***************************************************************************)
(* C6: check_recent_spam is true exactly when a flag record exists for the *)
(* text and is not older than SPAM_RECORD_DURATION; and after              *)
(* cleanup_spam_records no record older than SPAM_RECORD_DURATION remains, *)
(* every younger record is as it was, and the windows are untouched.       *)
(***************************************************************************)
C6_RecentIffFreshRecord ==
    Observed =>
        (last.recent <=> /\ last.text \in DOMAIN SPAM_RECORDS
                         /\ now - SPAM_RECORDS[last.text] <= SPAM_RECORD_DURATION)

C6_SweepRemovesExactlyTheExpired ==
    last.op = "cleanup" =>
        /\ DOMAIN SPAM_RECORDS =
              {m \in DOMAIN last.preRecords :
                  now - last.preRecords[m] <= SPAM_RECORD_DURATION}
        /\ \A m \in DOMAIN SPAM_RECORDS : SPAM_RECORDS[m] = last.preRecords[m]
        /\ SPAM_TRACKER = last.preTracker

C6_RetentionOfFlagRecords ==
    C6_RecentIffFreshRecord /\ C6_SweepRemovesExactlyTheExpired

\* a sweep has removed an expired record, and a later post of the same text
\* is not reported as recently flagged
C6_Witness ==
    /\ Observed
    /\ ~last.recent
    /\ \E i \in 1..Len(obsLog) : obsLog[i].text = last.text /\ obsLog[i].ret # {}
    /\ last.text \notin DOMAIN SPAM_RECORDS

(***************************************************************************)
(* C7: handling a text that matches a filter trigger, or that is a         *)
(* whitelist phrase, leaves the windows and the flag records unchanged and *)
(* mutes nobody for spam.                                                  *)
(***************************************************************************)
C7_ExemptTextLeavesSpamStateAlone ==
    (HandledText /\ last.text \in FilterTexts \cup WhitelistTexts) =>
        /\ SpamStateUntouched
        /\ last.spammer_ids = {}
        /\ last.rule # "spam"
        /\ "send_message" \notin CallKinds

\* an exempt text reaches the autospam block while a flag record is live
C7_Witness ==
    /\ HandledText
    /\ last.text \in FilterTexts \cup WhitelistTexts
    /\ ~FromAdmin
    /\ NameIsClean
    /\ last.text \notin ShortTexts \cup MultiplicationTexts
    /\ \E m \in DOMAIN SPAM_RECORDS : now - SPAM_RECORDS[m] <= SPAM_RECORD_DURATION

(***************************************************************************)
(* C8: for an administrator's message check_message bans, mutes and        *)
(* deletes nobody and leaves the spam state alone, and a text that matches *)
(* a filter trigger still gets the response of the first matching filter.  *)
(***************************************************************************)
C8_FirstTrigger(m) ==
    CHOOSE i \in 1..Len(FILTERS) :
        /\ FilterSearch(FILTERS[i].trigger, m)
        /\ \A j \in 1..(i - 1) : ~FilterSearch(FILTERS[j].trigger, m)

C8_Response == [m \in FilterTexts |-> FilterCalls(FILTERS[C8_FirstTrigger(m)])]

C8_AdministratorsOnlyGetFilterResponses ==
    (HandledText /\ FromAdmin) =>
        /\ CallKinds \cap {"ban_chat_member", "restrict_chat_member", "delete_message"} = {}
        /\ SpamStateUntouched
        /\ last.spammer_ids = {}
        /\ last.text \in FilterTexts =>
              (last.rule = "filter" /\ last.calls = C8_Response[last.text])

\* an administrator with a suspicious name posts a text that matches a filter
\* trigger and a ban phrase, and gets the filter's response
C8_Witness ==
    /\ HandledText
    /\ FromAdmin
    /\ ~NameIsClean
    /\ last.text \in FilterTexts \cap BanTexts
    /\ last.calls # <<>>

(***************************************************************************)
(* C9 as stated: every message whose trimmed text is shorter than          *)
(* MIN_TEXT_LEN characters is deleted, whoever sent it.                    *)
(***************************************************************************)
C9_Original ==
    (HandledText /\ last.text \in ShortTexts) => "delete_message" \in CallKinds

(***************************************************************************)
(* C9 as amended: the length test runs inside the administrator exemption: *)
(* a message with a non-empty text whose trimmed text is shorter than      *)
(* MIN_TEXT_LEN characters is deleted when its sender is no administrator  *)
(* (before any other rule), and is not deleted when the sender is one.     *)
(***************************************************************************)
C9_ShortTextDeletedUnlessAdmin ==
    (HandledText /\ last.update.text # "" /\ last.text \in ShortTexts) =>
        /\ ~FromAdmin => /\ last.rule = "too_short"
                         /\ CallKinds = {"delete_message"}
        /\ FromAdmin => "delete_message" \notin CallKinds

\* an administrator's short message is left alone
C9_Witness ==
    /\ HandledText
    /\ last.update.text # ""
    /\ last.text \in ShortTexts
    /\ FromAdmin
    /\ last.calls = <<>>

(***************************************************************************)
(* C10: for a message of a sender who is no administrator that passes the  *)
(* length, name and multiplication tests, the rules apply in the priority  *)
(* spam mute, ban phrase, mute phrase, delete phrase: when the spam check  *)
(* yields senders only they are muted and no phrase rule acts; otherwise a *)
(* text with a ban phrase is banned (and not muted, even with a mute       *)
(* phrase), a text with a mute phrase and no ban phrase is muted (and not  *)
(* deleted, even with a delete phrase), and a text with a delete phrase    *)
(* and neither of the others is deleted.                                   *)
(***************************************************************************)
C10_ReachesRules ==
    /\ HandledText
    /\ last.update.text # ""
    /\ ~FromAdmin
    /\ NameIsClean
    /\ last.text \notin ShortTexts \cup MultiplicationTexts

C10_RulePriority ==
    C10_ReachesRules =>
        /\ last.spammer_ids # {} =>
              /\ last.rule = "spam"
              /\ CallKinds = {"restrict_chat_member", "send_message"}
              /\ Restricted = last.spammer_ids
        /\ last.spammer_ids = {} =>
              /\ last.text \in BanTexts =>
                    CallKinds = {"ban_chat_member", "reply_text"}
              /\ last.text \in MuteTexts \ BanTexts =>
                    /\ CallKinds = {"restrict_chat_member", "reply_text"}
                    /\ Restricted = {last.update.user.id}
              /\ last.text \in DeleteTexts \ (BanTexts \cup MuteTexts) =>
                    CallKinds = {"delete_message"}

\* a text with a ban phrase and a mute phrase reaches the threshold: its
\* senders are muted for spam and nobody is banned
C10_Witness ==
    /\ C10_ReachesRules
    /\ last.text \in BanTexts \cap MuteTexts
    /\ last.spammer_ids # {}
    /\ "ban_chat_member" \notin CallKinds

(***************************************************************************)
(* C11: for one message check_message makes at most one kind of call among *)
(* ban, restrict and delete, and a message that was banned, muted or       *)
(* deleted gets no filter response.                                        *)
(***************************************************************************)
Moderation == {"ban_chat_member", "restrict_chat_member", "delete_message"}

\* the calls that are the response of some filter
FilterResponses ==
    UNION {{FilterCalls(FILTERS[i])[k] : k \in 1..Len(FilterCalls(FILTERS[i]))} :
              i \in 1..Len(FILTERS)}

\* the filter responses among the calls of the last step
FilterResponsesSent == SelectSeq(last.calls, LAMBDA c : c \in FilterResponses)

C11_AtMostOneModerationPrimitive ==
    HandledText =>
        /\ Cardinality(CallKinds \cap Moderation) <= 1
        /\ CallKinds \cap Moderation # {} => FilterResponsesSent = <<>>

\* a text with a filter trigger and a phrase of each block list is banned
C11_Witness ==
    /\ HandledText
    /\ NameIsClean
    /\ last.text \in FilterTexts \cap BanTexts \cap MuteTexts \cap DeleteTexts
    /\ "ban_chat_member" \in CallKinds

(***************************************************************************)
(* C12: a filter response is sent only when nothing was banned, muted or   *)
(* deleted, and at most one per message: when the text matches a trigger   *)
(* and no ban, mute or delete was applied, the calls are the response of   *)
(* the first matching trigger in the order of the filter table.            *)
(***************************************************************************)
\* the texts that match more than one trigger
C12_MultiTexts ==
    {m \in MessageTexts :
        Cardinality({i \in 1..Len(FILTERS) : FilterSearch(FILTERS[i].trigger, m)}) > 1}

C12_OnlyTheFirstFilterResponds ==
    HandledText =>
        /\ FilterResponsesSent # <<>> => CallKinds \cap Moderation = {}
        /\ Len(FilterResponsesSent) <= 1
        /\ last.text \notin FilterTexts => FilterResponsesSent = <<>>
        /\ (last.text \in FilterTexts /\ CallKinds \cap Moderation = {}) =>
              /\ last.rule = "filter"
              /\ last.calls = C8_Response[last.text]

\* a message of a sender who is no administrator matches two triggers with
\* different responses and gets the first
C12_Witness ==
    /\ HandledText
    /\ ~FromAdmin
    /\ last.text \in C12_MultiTexts
    /\ last.calls = FilterCalls(FILTERS[1])
    /\ \E i \in 2..Len(FILTERS) : FilterCalls(FILTERS[i]) \notin {<<>>, last.calls}

(***************************************************************************)
(* C13: when the spam check of a message yields senders, a failure of the  *)
(* platform while muting or notifying one of them is not raised by         *)
(* check_message and does not end the batch: the mute of every sender of   *)
(* the set is attempted, once, a notice follows each mute that succeeded,  *)
(* and nothing else is done for the message.                               *)
(***************************************************************************)
C13_MuteBatch == last.op = "msg" /\ last.spammer_ids # {}

C13_MuteAttempts ==
    SelectSeq(last.calls, LAMBDA a : a.call = "restrict_chat_member")

C13_FailureDoesNotAbortTheBatch ==
    C13_MuteBatch =>
        /\ last.rule = "spam"
        /\ {C13_MuteAttempts[i].uid : i \in 1..Len(C13_MuteAttempts)} = last.spammer_ids
        /\ Len(C13_MuteAttempts) = Cardinality(last.spammer_ids)
        /\ CallKinds \subseteq {"restrict_chat_member", "send_message"}
        /\ \A i \in 1..Len(last.calls) :
              /\ last.calls[i].call = "send_message" =>
                    /\ i > 1
                    /\ last.calls[i - 1].call = "restrict_chat_member"
                    /\ last.calls[i - 1].uid = last.calls[i].uid
                    /\ last.calls[i - 1].ok
              /\ (last.calls[i].call = "restrict_chat_member" /\ last.calls[i].ok) =>
                    /\ i < Len(last.calls)
                    /\ last.calls[i + 1].call = "send_message"

\* the mute of the first sender of a batch fails, the notice of another
\* fails, and the last sender is muted and notified
C13_Witness ==
    /\ C13_MuteBatch
    /\ Cardinality(last.spammer_ids) >= SPAM_THRESHOLD
    /\ ~last.calls[1].ok
    /\ \E i \in 1..Len(last.calls) :
          last.calls[i].call = "send_message" /\ ~last.calls[i].ok
    /\ last.calls[Len(last.calls)].call = "send_message"
    /\ last.calls[Len(last.calls)].ok

(***************************************************************************)
(* C14: in one run of post_brand_assets the send and the pin of every      *)
(* message of the sequence are attempted, in order, whether or not an      *)
(* earlier send or pin of the run failed.                                  *)
(***************************************************************************)
\* the texts whose send the last firing attempted, in order
SendsAttempted ==
    LET a == SelectSeq(last.calls, LAMBDA c : c.call = "send_message")
    IN [i \in 1..Len(a) |-> a[i].what]

C14_EveryBrandMessageIsAttempted ==
    last.op = "post_brand_assets" => SendsAttempted = brand_assets_messages

(***************************************************************************)
(* C15 as stated: every firing of post_security_message sends the message  *)
(* at the current index and advances the index by exactly one modulo the   *)
(* length of the sequence.                                                 *)
(***************************************************************************)
C15_Original ==
    last.op = "post_security_message" =>
        /\ Len(chat) = Len(last.preChat) + 1
        /\ chat[Len(chat)].text = messages[last.preIndex + 1]
        /\ message_index = (last.preIndex + 1) % Len(messages)

(***************************************************************************)
(* C15 as amended: every firing attempts to send the message at the        *)
(* current index; a firing whose send and pin both succeed advances the    *)
(* index by exactly one modulo the length of the sequence, a firing whose  *)
(* send or pin fails leaves the index where it was; the index is always in *)
(* range, and the security messages posted and pinned so far walk the      *)
(* sequence in order from its first message, wrapping after the last.      *)
(***************************************************************************)
\* the security messages in the chat that were pinned, oldest first
C15_Pinned ==
    SelectSeq(chat, LAMBDA c : c.pinned /\ \E i \in 1..Len(messages) : c.text = messages[i])

C15_IndexWalksTheSequence ==
    /\ message_index \in 0..(Len(messages) - 1)
    /\ \A i \in 1..Len(C15_Pinned) : C15_Pinned[i].text = messages[((i - 1) % Len(messages)) + 1]
    /\ message_index = Len(C15_Pinned) % Len(messages)
    /\ last.op = "post_security_message" =>
          /\ last.calls[1].call = "send_message"
          /\ last.calls[1].what = messages[last.preIndex + 1]
          /\ ~last.raised => message_index = (last.preIndex + 1) % Len(messages)
          /\ last.raised => message_index = last.preIndex

\* the index has wrapped to the first message after the last, and a firing
\* whose pin failed has posted a message a second time
C15_Witness ==
    /\ last.op = "post_security_message"
    /\ ~last.raised
    /\ last.preIndex = Len(messages) - 1
    /\ message_index = 0
    /\ \E i \in 1..(Len(chat) - 1) : ~chat[i].pinned /\ chat[i].text = chat[i + 1].text

(***************************************************************************)
(* C16: with the sweeper running beside the dispatcher, the sweeper never  *)
(* deletes a flag record whose timestamp, at the moment of the deletion,   *)
(* is within the retention period.                                         *)
(***************************************************************************)
C16_SweeperDeletesOnlyExpiredRecords ==
    last.op = "sweep" =>
        \A m \in DOMAIN last.preRecords \ DOMAIN SPAM_RECORDS :
            now - last.preRecords[m] > SPAM_RECORD_DURATION

(***************************************************************************)
(* C17: an update that carries no message text is a no-op: check_message   *)
(* raises nothing, makes no platform call and leaves the spam state as it  *)
(* was.                                                                    *)
(***************************************************************************)
C17_NoTextIsNoOp ==
    (last.op = "msg" /\ ~last.update.has_text) =>
        /\ last.rule # "raised"
        /\ last.calls = <<>>
        /\ SpamStateUntouched

(***************************************************************************)
(* C18 as stated: a message of a sender who is no administrator that       *)
(* reaches the exemption test with a text that matches a filter trigger or *)
(* is a whitelist phrase skips the spam check, the ban phrases and the     *)
(* mute phrases: it is neither banned nor muted.                           *)
(***************************************************************************)
C18_ExemptTextReachesRules ==
    /\ C10_ReachesRules
    /\ last.text \in FilterTexts \cup WhitelistTexts

C18_Original ==
    C18_ExemptTextReachesRules =>
        CallKinds \cap {"ban_chat_member", "restrict_chat_member"} = {}

(***************************************************************************)
(* C18 as amended: such a message skips the spam check only and continues  *)
(* at the ban phrases: nobody is muted for spam, and the message is banned *)
(* when its text has a ban phrase, muted when it has a mute phrase and no  *)
(* ban phrase, deleted when it has a delete phrase and neither of the      *)
(* others, and gets the filter response otherwise.                         *)
(***************************************************************************)
C18_ExemptTextSkipsOnlyTheSpamCheck ==
    C18_ExemptTextReachesRules =>
        /\ ~last.checked
        /\ "send_message" \notin CallKinds
        /\ last.text \in BanTexts =>
              CallKinds = {"ban_chat_member", "reply_text"}
        /\ last.text \in MuteTexts \ BanTexts =>
              /\ CallKinds = {"restrict_chat_member", "reply_text"}
              /\ Restricted = {last.update.user.id}
        /\ last.text \in DeleteTexts \ (BanTexts \cup MuteTexts) =>
              CallKinds = {"delete_message"}
        /\ last.text \notin BanTexts \cup MuteTexts \cup DeleteTexts =>
              CallKinds \cap Moderation = {}

\* a text that matches a filter trigger and has a mute phrase, and no ban
\* phrase, is muted
C18_Witness ==
    /\ C18_ExemptTextReachesRules
    /\ last.text \in (FilterTexts \cap MuteTexts) \ BanTexts
    /\ Restricted = {last.update.user.id}

(***************************************************************************)
(* C19: when the sweeper keeps firing and time advances, every flag record *)
(* is removed from SPAM_RECORDS in the end: in runs where the posts of a   *)
(* text stop, a text that has a flag record later has none.                *)
(***************************************************************************)
C19_FlagRecordsExpire ==
    \A m \in MessageTexts :
        (m \in DOMAIN SPAM_RECORDS) ~> (m \notin DOMAIN SPAM_RECORDS)

\* the sweeper removes the record of a text that was posted again, and
\* muted, after the flagging
C19_Witness ==
    /\ last.op = "cleanup"
    /\ \E m \in DOMAIN last.preRecords \ DOMAIN SPAM_RECORDS :
          /\ LogOf(m)[Len(LogOf(m))].ret = {}
          /\ LogOf(m)[Len(LogOf(m))].t > last.preRecords[m]

(***************************************************************************)
(* C20: the threshold counts observations, not senders: an observation     *)
(* with at least SPAM_THRESHOLD observations of its text in the time       *)
(* window that ends at it, all of one sender, flags the text and returns   *)
(* that sender alone; and whenever senders are muted for spam the sender   *)
(* of the message is one of them.                                          *)
(***************************************************************************)
C20_BurstOfOneSender(i) ==
    /\ Cardinality(C4_InWindowBefore(i)) >= SPAM_THRESHOLD
    /\ \A j \in C4_InWindowBefore(i) : obsLog[j].uid = obsLog[i].uid

C20_ThresholdCountsObservations ==
    /\ \A i \in 1..Len(obsLog) :
          C20_BurstOfOneSender(i) => obsLog[i].ret = {obsLog[i].uid}
    /\ (Observed /\ C20_BurstOfOneSender(Len(obsLog))) =>
          /\ last.text \in DOMAIN SPAM_RECORDS
          /\ SPAM_RECORDS[last.text] = now
    /\ (HandledText /\ last.spammer_ids # {}) =>
          /\ last.update.user.id \in last.spammer_ids
          /\ last.update.user.id \in Restricted

\* the third post of a text by one sender, at the edge of the window, gets
\* that sender muted
C20_Witness ==
    /\ Observed
    /\ C20_BurstOfOneSender(Len(obsLog))
    /\ Cardinality(C4_InWindowBefore(Len(obsLog))) = SPAM_THRESHOLD
    /\ \E j \in C4_InWindowBefore(Len(obsLog)) : now - obsLog[j].t = TIME_WINDOW
    /\ Restricted = {last.update.user.id}

====
